---- MODULE Spec2Model ----
(***************************************************************************)
(* The process-wide configuration object of internal/config/config.go:     *)
(* the stored parameters, the lazily built in-memory cache, the database   *)
(* handle, and the settings Propagate() copies into the logger and the     *)
(* thumb package.                                                          *)
(***************************************************************************)
EXTENDS Integers, Sequences, FiniteSets

\* ---------------------------------------------------------------- bounds

\* How far beyond each clamping threshold the configured numbers range.
Margin == 2

\* The largest CPU count runtime.NumCPU() reports.
MaxCPU == 4

\* Goroutines sharing one Config in the concurrent specification.
NumGoroutines == 3

\* --------------------------------------------------------------- strings

\* Strings that the code lower-cases are tuples of characters.
LowerChar(ch) ==
    CASE ch = "A" -> "a" [] ch = "B" -> "b" [] ch = "C" -> "c" [] ch = "D" -> "d"
      [] ch = "E" -> "e" [] ch = "F" -> "f" [] ch = "G" -> "g" [] ch = "H" -> "h"
      [] ch = "I" -> "i" [] ch = "J" -> "j" [] ch = "K" -> "k" [] ch = "L" -> "l"
      [] ch = "M" -> "m" [] ch = "N" -> "n" [] ch = "O" -> "o" [] ch = "P" -> "p"
      [] ch = "Q" -> "q" [] ch = "R" -> "r" [] ch = "S" -> "s" [] ch = "T" -> "t"
      [] ch = "U" -> "u" [] ch = "V" -> "v" [] ch = "W" -> "w" [] ch = "X" -> "x"
      [] ch = "Y" -> "y" [] ch = "Z" -> "z" [] OTHER -> ch

\* strings.ToLower
ToLower(s) == [i \in 1..Len(s) |-> LowerChar(s[i])]

\* logrus.ParseLevel: the level a name stands for, or an error.
ParseLevel(lvl) ==
    LET l == ToLower(lvl) IN
    CASE l = <<"p","a","n","i","c">> -> [level |-> "PanicLevel", err |-> FALSE]
      [] l = <<"f","a","t","a","l">> -> [level |-> "FatalLevel", err |-> FALSE]
      [] l = <<"e","r","r","o","r">> -> [level |-> "ErrorLevel", err |-> FALSE]
      [] l = <<"w","a","r","n">> -> [level |-> "WarnLevel", err |-> FALSE]
      [] l = <<"w","a","r","n","i","n","g">> -> [level |-> "WarnLevel", err |-> FALSE]
      [] l = <<"i","n","f","o">> -> [level |-> "InfoLevel", err |-> FALSE]
      [] l = <<"d","e","b","u","g">> -> [level |-> "DebugLevel", err |-> FALSE]
      [] l = <<"t","r","a","c","e">> -> [level |-> "TraceLevel", err |-> FALSE]
      [] OTHER -> [level |-> "PanicLevel", err |-> TRUE]

\* ------------------------------------------------------ 64-bit integers

\* A Go int64 is eight bytes, least significant first, in two's complement.
RECURSIVE Carry(_, _, _)
Carry(cols, i, c) ==
    IF i > Len(cols) THEN <<>>
    ELSE LET t == cols[i] + c
         IN  <<t % 256>> \o Carry(cols, i + 1, t \div 256)

RECURSIVE ColSum(_, _, _, _)
ColSum(a, b, k, i) ==
    IF i > Len(a) \/ i > k THEN 0
    ELSE (IF k - i + 1 <= Len(b) THEN a[i] * b[k - i + 1] ELSE 0)
         + ColSum(a, b, k, i + 1)

\* The product of two int64 values as the machine computes it: modulo 2^64.
Mul64(a, b) == Carry([k \in 1..8 |-> ColSum(a, b, k, 1)], 1, 0)

\* The mathematical product of two non-negative int64 values, sixteen bytes.
MulWide(a, b) == Carry([k \in 1..16 |-> ColSum(a, b, k, 1)], 1, 0)

Neg64(a) == Carry([k \in 1..8 |-> 255 - a[k]], 1, 1)

\* The int64 of a number small enough for the model checker's own integers.
Int64(n) ==
    LET m == IF n < 0 THEN -n ELSE n
        x == [k \in 1..8 |-> IF k <= 4 THEN (m \div (256 ^ (k - 1))) % 256 ELSE 0]
    IN  IF n < 0 THEN Neg64(x) ELSE Carry(x, 1, 0)

IsNeg64(a) == a[8] >= 128
IsZero64(a) == \A k \in 1..8 : a[k] = 0
LeqZero64(a) == IsNeg64(a) \/ IsZero64(a)

\* time.Second and time.Minute, in nanoseconds.
Second == Int64(1000000000)
Minute == Mul64(Int64(60), Second)

\* ----------------------------------------------------------------- state

VARIABLES
    params,       \* c.params: the parameters NewParams(ctx) read
    numCPU,       \* what runtime.NumCPU() reports on this machine
    cache,        \* c.cache: Nil or the cache instance it points to
    cacheAllocs,  \* the heap: how many instances gc.New has built so far
    db,           \* c.db: "nil" or "open"
    connErr,      \* what the last connectToDatabase returned
    logLevel,     \* the level of the global logger (log.SetLevel)
    thumb,        \* thumb.JpegQuality, PreRenderSize, MaxRenderSize, Filter
    canceled,     \* mutex.Worker, mutex.Share and mutex.Sync were canceled
    pc,           \* where Init is: "idle" (not running) or "connect" (line 86)
    ret,          \* the last call that returned: its name and its result
    gpc,          \* per goroutine: where it is inside Cache()
    gret          \* per goroutine: what its last Cache() returned

vars == <<params, numCPU, cache, cacheAllocs, db, connErr, logLevel, thumb,
          canceled, pc, ret, gpc, gret>>

Nil == 0

Goroutines == 1..NumGoroutines

\* ------------------------------------------------------- configurations

DefaultParams ==
    [ Name |-> "PhotoPrism", Url |-> "", Title |-> "", Subtitle |-> "Browse your life",
      Description |-> "", Author |-> "PhotoPrism.org", Twitter |-> "@browseyourlife",
      Version |-> "test", Copyright |-> "", Debug |-> FALSE, Public |-> FALSE,
      Experimental |-> TRUE, ReadOnly |-> FALSE, DetectNSFW |-> TRUE,
      UploadNSFW |-> FALSE, AdminPassword |-> "", WebDAVPassword |-> "",
      LogLevel |-> <<"i","n","f","o">>, Workers |-> 0, WakeupInterval |-> Int64(0),
      ThumbQuality |-> 95, ThumbSize |-> 2048, ThumbLimit |-> 3840,
      ThumbFilter |-> <<"l","a","n","c","z","o","s">>, GeoCodingApi |-> "osm" ]

\* The numbers within Margin of a threshold.
Around(n) == (n - Margin)..(n + Margin)

QualityInputs == (25 - Margin)..(100 + Margin) \cup {-1, 0}

SizeInputs == Around(720) \cup Around(3840) \cup {-1, 0, 2048}

LogLevelInputs ==
    { <<>>, <<"d","e","b","u","g">>, <<"W","A","R","N">>, <<"w","a","r","n","i","n","g">>,
      <<"E","r","r","o","r">>, <<"t","r","a","c","e">>, <<"i","n","f","o">>,
      <<"f","a","t","a","l">>, <<"P","a","n","i","c">>, <<"v","e","r","b","o","s","e">> }

FilterInputs ==
    { <<>>, <<"b","l","a","c","k","m","a","n">>, <<"L","a","n","c","z","o","s">>,
      <<"C","U","B","I","C">>, <<"l","i","n","e","a","r">>, <<"b","o","x">> }

\* 9223372036 s is the longest interval whose nanoseconds fit an int64;
\* 9223372037 s and 18446744074 s are past it.
WakeupInputs ==
    { Int64(n) : n \in (0 - Margin)..Margin }
      \cup { Int64(60), Int64(2147483647),
             <<4, 125, 193, 37, 2, 0, 0, 0>>,
             <<5, 125, 193, 37, 2, 0, 0, 0>>,
             <<10, 250, 130, 75, 4, 0, 0, 0>> }

StringInputs ==
    { [Url |-> "", Title |-> "", AdminPassword |-> "", GeoCodingApi |-> ""],
      [Url |-> "https://photos.example.com/", Title |-> "Photos",
       AdminPassword |-> "secret", GeoCodingApi |-> "places"],
      [Url |-> "", Title |-> "Photos", AdminPassword |-> "", GeoCodingApi |-> "google"] }

\* Debug, log level, strings and a few thumbnail settings vary together.
MainConfigs ==
    { [DefaultParams EXCEPT !.Debug = d, !.LogLevel = l, !.ThumbQuality = t.q,
                            !.ThumbSize = t.s, !.ThumbLimit = t.m, !.ThumbFilter = t.f,
                            !.Url = s.Url, !.Title = s.Title,
                            !.AdminPassword = s.AdminPassword,
                            !.GeoCodingApi = s.GeoCodingApi] :
        d \in BOOLEAN, l \in LogLevelInputs, s \in StringInputs,
        t \in { [q |-> 95, s |-> 2048, m |-> 3840, f |-> <<"l","a","n","c","z","o","s">>],
                [q |-> 100 + Margin, s |-> 720 - Margin, m |-> 3840 + Margin,
                 f |-> <<"B","l","a","c","k","m","a","n">>],
                [q |-> 25 - Margin, s |-> 3840 + Margin, m |-> 720 - Margin,
                 f |-> <<"b","o","x">>],
                [q |-> 60, s |-> 720, m |-> 1280, f |-> <<"l","i","n","e","a","r">>] } }

QualityConfigs ==
    { [DefaultParams EXCEPT !.ThumbQuality = q] : q \in QualityInputs }
      \cup { [DefaultParams EXCEPT !.ThumbFilter = f] : f \in FilterInputs }

SizeConfigs ==
    { [DefaultParams EXCEPT !.ThumbSize = s, !.ThumbLimit = m] :
        s \in SizeInputs, m \in SizeInputs }

WorkerConfigs ==
    { [DefaultParams EXCEPT !.Workers = w] : w \in (0 - Margin)..(MaxCPU + Margin) }

WakeupConfigs ==
    { [DefaultParams EXCEPT !.WakeupInterval = w] : w \in WakeupInputs }

\* ------------------------------------------------------------- accessors

Name == params.Name

Url == IF params.Url = "" THEN "http://localhost:2342/" ELSE params.Url

Title == IF params.Title = "" THEN Name ELSE params.Title

Subtitle == params.Subtitle

Description == params.Description

Author == params.Author

Twitter == params.Twitter

Version == params.Version

Copyright == params.Copyright

Debug == params.Debug

Public == params.Public

Experimental == params.Experimental

ReadOnly == params.ReadOnly

DetectNSFW == params.DetectNSFW

UploadNSFW == params.UploadNSFW

AdminPassword == IF params.AdminPassword = "" THEN "photoprism" ELSE params.AdminPassword

WebDAVPassword == params.WebDAVPassword

\* LogLevel, lines 188-190: what the call leaves in c.params.LogLevel.
LogLevelStore == IF Debug THEN <<"d","e","b","u","g">> ELSE params.LogLevel

\* A LogLevel that forgets the debug override.
LogLevelNoDebug ==
    LET parsed == ParseLevel(params.LogLevel)
    IN  IF ~parsed.err THEN parsed.level ELSE "InfoLevel"

\* LogLevel, lines 192-196: what the call returns.
LogLevel ==
    LET parsed == ParseLevel(LogLevelStore)
    IN  IF ~parsed.err THEN parsed.level ELSE "InfoLevel"

\* A Workers that forgets the single-CPU case.
WorkersNoFloor ==
    IF params.Workers > 0 /\ params.Workers <= numCPU
    THEN params.Workers
    ELSE numCPU - 1

Workers ==
    IF params.Workers > 0 /\ params.Workers <= numCPU
    THEN params.Workers
    ELSE IF numCPU > 1 THEN numCPU - 1 ELSE 1

WakeupInterval ==
    IF LeqZero64(params.WakeupInterval)
    THEN Mul64(Int64(5), Minute)
    ELSE Mul64(params.WakeupInterval, Second)

\* A ThumbQuality that forgets the lower bound.
ThumbQualityNoFloor ==
    IF params.ThumbQuality > 100 THEN 100
    ELSE params.ThumbQuality

ThumbQuality ==
    IF params.ThumbQuality > 100 THEN 100
    ELSE IF params.ThumbQuality < 25 THEN 25
    ELSE params.ThumbQuality

ThumbSize ==
    IF params.ThumbSize > 3840 THEN 3840
    ELSE IF params.ThumbSize < 720 THEN 720
    ELSE params.ThumbSize

\* A ThumbLimit that clamps values above the range to the lower bound.
ThumbLimitWrongBound ==
    IF params.ThumbLimit > 3840 THEN 720
    ELSE IF params.ThumbLimit < 720 THEN 720
    ELSE params.ThumbLimit

ThumbLimit ==
    IF params.ThumbLimit > 3840 THEN 3840
    ELSE IF params.ThumbLimit < 720 THEN 720
    ELSE params.ThumbLimit

ThumbFilter ==
    LET f == ToLower(params.ThumbFilter) IN
    CASE f = <<"b","l","a","c","k","m","a","n">> -> "ResampleBlackman"
      [] f = <<"l","a","n","c","z","o","s">> -> "ResampleLanczos"
      [] f = <<"c","u","b","i","c">> -> "ResampleCubic"
      [] f = <<"l","i","n","e","a","r">> -> "ResampleLinear"
      [] OTHER -> "ResampleCubic"

GeoCodingApi ==
    CASE params.GeoCodingApi = "places" -> "places"
      [] params.GeoCodingApi = "osm" -> "osm"
      [] OTHER -> ""

\* --------------------------------------------------------------- actions

\* Everything a call that only reads the parameters leaves alone.
Getter(op, val) ==
    /\ pc = "idle"
    /\ ret' = [op |-> op, val |-> val]
    /\ UNCHANGED <<params, numCPU, cache, cacheAllocs, db, connErr, logLevel,
                   thumb, canceled, pc, gpc, gret>>

CallName == Getter("Name", Name)
CallUrl == Getter("Url", Url)
CallTitle == Getter("Title", Title)
CallSubtitle == Getter("Subtitle", Subtitle)
CallDescription == Getter("Description", Description)
CallAuthor == Getter("Author", Author)
CallTwitter == Getter("Twitter", Twitter)
CallVersion == Getter("Version", Version)
CallCopyright == Getter("Copyright", Copyright)
CallDebug == Getter("Debug", Debug)
CallPublic == Getter("Public", Public)
CallExperimental == Getter("Experimental", Experimental)
CallReadOnly == Getter("ReadOnly", ReadOnly)
CallDetectNSFW == Getter("DetectNSFW", DetectNSFW)
CallUploadNSFW == Getter("UploadNSFW", UploadNSFW)
CallAdminPassword == Getter("AdminPassword", AdminPassword)
CallWebDAVPassword == Getter("WebDAVPassword", WebDAVPassword)
CallWorkers == Getter("Workers", Workers)
CallWakeupInterval == Getter("WakeupInterval", WakeupInterval)
CallThumbQuality == Getter("ThumbQuality", ThumbQuality)
CallThumbSize == Getter("ThumbSize", ThumbSize)
CallThumbLimit == Getter("ThumbLimit", ThumbLimit)
CallThumbFilter == Getter("ThumbFilter", ThumbFilter)
CallGeoCodingApi == Getter("GeoCodingApi", GeoCodingApi)

\* LogLevel() writes c.params.LogLevel when debug mode is on, then parses it.
CallLogLevel ==
    /\ pc = "idle"
    /\ params' = [params EXCEPT !.LogLevel = LogLevelStore]
    /\ ret' = [op |-> "LogLevel", val |-> LogLevel]
    /\ UNCHANGED <<numCPU, cache, cacheAllocs, db, connErr, logLevel, thumb,
                   canceled, pc, gpc, gret>>

\* A Cache that builds a new instance on every call.
CacheAlwaysNew ==
    /\ cacheAllocs' = cacheAllocs + 1
    /\ cache' = cacheAllocs + 1

\* Cache(), lines 201-203: build the instance if there is none yet.
Cache ==
    IF cache = Nil
    THEN /\ cacheAllocs' = cacheAllocs + 1
         /\ cache' = cacheAllocs + 1
    ELSE UNCHANGED <<cache, cacheAllocs>>

\* One whole call of Cache() with nothing running in between.
CallCache ==
    /\ pc = "idle"
    /\ Cache
    /\ ret' = [op |-> "Cache", val |-> cache']
    /\ UNCHANGED <<params, numCPU, db, connErr, logLevel, thumb, canceled, pc,
                   gpc, gret>>

\* A Propagate that hands the pre-render size to both size limits.
PropagateSwapped ==
    /\ logLevel' = LogLevel
    /\ params' = [params EXCEPT !.LogLevel = LogLevelStore]
    /\ thumb' = [JpegQuality |-> ThumbQuality, PreRenderSize |-> ThumbSize,
                 MaxRenderSize |-> ThumbSize, Filter |-> ThumbFilter]

\* Propagate(), lines 73-78. The call of line 80, Settings().Propagate(),
\* touches neither the logger nor the thumb package.
Propagate ==
    /\ logLevel' = LogLevel
    /\ params' = [params EXCEPT !.LogLevel = LogLevelStore]
    /\ thumb' = [JpegQuality |-> ThumbQuality, PreRenderSize |-> ThumbSize,
                 MaxRenderSize |-> ThumbLimit, Filter |-> ThumbFilter]

CallPropagate ==
    /\ pc = "idle"
    /\ Propagate
    /\ ret' = [op |-> "Propagate", val |-> "void"]
    /\ UNCHANGED <<numCPU, cache, cacheAllocs, db, connErr, canceled, pc, gpc, gret>>

\* Init(), line 85.
InitPropagate ==
    /\ pc = "idle"
    /\ Propagate
    /\ pc' = "connect"
    /\ UNCHANGED <<numCPU, cache, cacheAllocs, db, connErr, canceled, ret, gpc, gret>>

\* The connection is opened and stored, or it fails and an error comes back.
connectToDatabase ==
    \/ /\ db' = "open"
       /\ connErr' = "nil"
    \/ /\ db' = db
       /\ connErr' = "error"

\* Init(), line 86.
InitConnect ==
    /\ pc = "connect"
    /\ connectToDatabase
    /\ pc' = "idle"
    /\ ret' = [op |-> "Init", val |-> connErr']
    /\ UNCHANGED <<params, numCPU, cache, cacheAllocs, logLevel, thumb, canceled,
                   gpc, gret>>

\* CloseDb() closes an open handle and forgets it.
CloseDb == db' = "nil"

Shutdown ==
    /\ pc = "idle"
    /\ canceled' = TRUE
    /\ CloseDb
    /\ ret' = [op |-> "Shutdown", val |-> "void"]
    /\ UNCHANGED <<params, numCPU, cache, cacheAllocs, connErr, logLevel, thumb,
                   pc, gpc, gret>>

\* ------------------------------------------------- Cache(), step by step

\* Nothing guards c.cache, so goroutines inside Cache() interleave at each
\* read and write of the field; a racing read sees the old or the new pointer.

\* Line 201: read c.cache and compare it with nil.
CacheCheck(g) ==
    /\ gpc[g] = "idle"
    /\ gpc' = [gpc EXCEPT ![g] = IF cache = Nil THEN "new" ELSE "return"]
    /\ UNCHANGED <<params, numCPU, cache, cacheAllocs, db, connErr, logLevel,
                   thumb, canceled, pc, ret, gret>>

\* Line 202: build an instance and store it in c.cache.
CacheNew(g) ==
    /\ gpc[g] = "new"
    /\ cacheAllocs' = cacheAllocs + 1
    /\ cache' = cacheAllocs + 1
    /\ gpc' = [gpc EXCEPT ![g] = "return"]
    /\ UNCHANGED <<params, numCPU, db, connErr, logLevel, thumb, canceled, pc,
                   ret, gret>>

\* Line 205: read c.cache and return it.
CacheReturn(g) ==
    /\ gpc[g] = "return"
    /\ gret' = [gret EXCEPT ![g] = cache]
    /\ gpc' = [gpc EXCEPT ![g] = "idle"]
    /\ UNCHANGED <<params, numCPU, cache, cacheAllocs, db, connErr, logLevel,
                   thumb, canceled, pc, ret>>

\* -------------------------------------------------------- specifications

\* The state NewConfig leaves: parameters read, logger set by initLogger,
\* no cache, no database handle, the thumb package at its defaults.
InitWith(configs, cpus) ==
    /\ params \in configs
    /\ numCPU \in cpus
    /\ cache = Nil
    /\ cacheAllocs = 0
    /\ db = "nil"
    /\ connErr = "none"
    /\ logLevel = IF params.Debug THEN "DebugLevel" ELSE "InfoLevel"
    /\ thumb = [JpegQuality |-> 95, PreRenderSize |-> 2048,
                MaxRenderSize |-> 3840, Filter |-> "ResampleLanczos"]
    /\ canceled = FALSE
    /\ pc = "idle"
    /\ ret = [op |-> "NewConfig", val |-> "config"]
    /\ gpc = [g \in Goroutines |-> "idle"]
    /\ gret = [g \in Goroutines |-> Nil]

Init == InitWith(MainConfigs, {MaxCPU})

InitQuality == InitWith(QualityConfigs, {MaxCPU})

InitSize == InitWith(SizeConfigs, {MaxCPU})

InitWorkers == InitWith(WorkerConfigs, 1..MaxCPU)

InitWakeup == InitWith(WakeupConfigs, {MaxCPU})

InitConc == InitWith({DefaultParams}, {MaxCPU})

\* One goroutine uses the Config: calls run one after the other.
Next ==
    \/ CallName \/ CallUrl \/ CallTitle \/ CallSubtitle \/ CallDescription
    \/ CallAuthor \/ CallTwitter \/ CallVersion \/ CallCopyright \/ CallDebug
    \/ CallPublic \/ CallExperimental \/ CallReadOnly \/ CallDetectNSFW
    \/ CallUploadNSFW \/ CallAdminPassword \/ CallWebDAVPassword
    \/ CallLogLevel \/ CallCache \/ CallWorkers \/ CallWakeupInterval
    \/ CallThumbQuality \/ CallThumbSize \/ CallThumbLimit \/ CallThumbFilter
    \/ CallGeoCodingApi \/ CallPropagate \/ InitPropagate \/ InitConnect
    \/ Shutdown

\* Several goroutines call Cache() on the same Config.
NextConc ==
    \E g \in Goroutines : CacheCheck(g) \/ CacheNew(g) \/ CacheReturn(g)

Spec == Init /\ [][Next]_vars

SpecQuality == InitQuality /\ [][Next]_vars

SpecSize == InitSize /\ [][Next]_vars

SpecWorkers == InitWorkers /\ [][Next]_vars

SpecWakeup == InitWakeup /\ [][Next]_vars

SpecConc == InitConc /\ [][NextConc]_vars

\* ---------------------------------------------------------------- claims

\* C1: ThumbQuality() returns a value in [25,100]: 100 for a configured value
\* above 100, 25 for one below 25, and the configured value otherwise.
C1_ThumbQualityClamped ==
    ret.op = "ThumbQuality" =>
        /\ ret.val \in 25..100
        /\ params.ThumbQuality > 100 => ret.val = 100
        /\ params.ThumbQuality < 25 => ret.val = 25
        /\ params.ThumbQuality \in 25..100 => ret.val = params.ThumbQuality

\* ThumbQuality() has returned for a configured value below the range.
C1_Witness ==
    /\ ret.op = "ThumbQuality"
    /\ params.ThumbQuality = 25 - 1
    /\ ret.val = 25

\* The clamp of both size accessors, for the configured value v.
SizeClamped(v, r) ==
    /\ r \in 720..3840
    /\ v > 3840 => r = 3840
    /\ v < 720 => r = 720
    /\ v \in 720..3840 => r = v

\* C2: ThumbSize() and ThumbLimit() each return a value in [720,3840]: 3840
\* for a configured value above 3840, 720 for one below 720, and the
\* configured value otherwise.
C2_ThumbSizesClamped ==
    /\ ret.op = "ThumbSize" => SizeClamped(params.ThumbSize, ret.val)
    /\ ret.op = "ThumbLimit" => SizeClamped(params.ThumbLimit, ret.val)

\* ThumbLimit() has returned for a limit above the range while the
\* configured size lies below it.
C2_Witness ==
    /\ ret.op = "ThumbLimit"
    /\ params.ThumbLimit = 3840 + 1
    /\ params.ThumbSize = 720 - 1
    /\ ret.val = 3840

\* The calls C3 names: the accessors, which only derive values.
AccessorNames ==
    { "Name", "Url", "Title", "Subtitle", "Description", "Author", "Twitter",
      "Version", "Copyright", "Debug", "Public", "Experimental", "ReadOnly",
      "DetectNSFW", "UploadNSFW", "AdminPassword", "WebDAVPassword", "LogLevel",
      "Workers", "WakeupInterval", "ThumbQuality", "ThumbSize", "ThumbLimit",
      "ThumbFilter", "GeoCodingApi" }

\* C3: the accessors are pure: a call of an accessor leaves every field of
\* the stored params, params.LogLevel included, as NewConfig set it.
C3_AccessorsPure ==
    [][(pc = "idle" /\ pc' = "idle" /\ ret'.op \in AccessorNames)
          => params' = params]_vars

\* C4: no cache exists after NewConfig; only Cache() builds one, and only
\* when there is none; every call of Cache() returns the one instance the
\* first call built, never nil, and nothing replaces or clears it.
C4_CacheLazyOnce ==
    /\ cache = Nil
    /\ [](/\ cacheAllocs <= 1
          /\ cache = Nil <=> cacheAllocs = 0
          /\ ret.op = "Cache" => (ret.val # Nil /\ ret.val = 1 /\ ret.val = cache))
    /\ [][cache' # cache => (cache = Nil /\ ret'.op = "Cache")]_vars

\* Cache() has returned the first instance after Init connected and
\* Shutdown closed the database again.
C4_Witness ==
    /\ ret.op = "Cache"
    /\ ret.val = 1
    /\ cacheAllocs = 1
    /\ canceled
    /\ connErr = "nil"
    /\ db = "nil"

\* The logger and the thumb package hold what the accessors derive.
Propagated ==
    /\ logLevel = LogLevel
    /\ thumb.JpegQuality = ThumbQuality
    /\ thumb.JpegQuality \in 25..100
    /\ thumb.PreRenderSize = ThumbSize
    /\ thumb.PreRenderSize \in 720..3840
    /\ thumb.MaxRenderSize = ThumbLimit
    /\ thumb.MaxRenderSize \in 720..3840
    /\ thumb.Filter = ThumbFilter

\* C5: after Propagate() returns, and after Init() returns with the
\* connection made or failed, the logger and the thumb package hold the
\* derived settings; Init has propagated them when it reaches the database
\* connection and returns exactly the connection's result.
C5_InitPropagates ==
    /\ ret.op \in {"Propagate", "Init"} => Propagated
    /\ pc = "connect" => Propagated
    /\ ret.op = "Init" => (ret.val = connErr /\ ret.val \in {"nil", "error"})

\* Init() has returned a failed connection with out-of-range thumbnail
\* settings clamped and a configured log level in force.
C5_Witness ==
    /\ ret.op = "Init"
    /\ ret.val = "error"
    /\ params.ThumbQuality > 100
    /\ thumb.JpegQuality = 100
    /\ params.ThumbLimit > 3840
    /\ thumb.MaxRenderSize = 3840
    /\ thumb.PreRenderSize = 720
    /\ logLevel = "WarnLevel"

\* C6: Workers() returns a value in [1, n] for n CPUs: the configured count
\* w when 1 <= w <= n, otherwise n-1 when n > 1 and 1 when n = 1.
C6_WorkersInRange ==
    ret.op = "Workers" =>
        /\ ret.val \in 1..numCPU
        /\ params.Workers \in 1..numCPU => ret.val = params.Workers
        /\ (params.Workers \notin 1..numCPU /\ numCPU > 1) => ret.val = numCPU - 1
        /\ (params.Workers \notin 1..numCPU /\ numCPU = 1) => ret.val = 1

\* Workers() has returned on a single CPU with more workers configured.
C6_Witness ==
    /\ ret.op = "Workers"
    /\ numCPU = 1
    /\ params.Workers > 1
    /\ ret.val = 1

\* The duration d is exactly w seconds: the nanoseconds of w fit an int64.
ExactSeconds(w, d) ==
    /\ ~IsNeg64(d)
    /\ MulWide(w, Second) = d \o <<0, 0, 0, 0, 0, 0, 0, 0>>

\* C7: WakeupInterval() returns a strictly positive duration: 300 seconds
\* for a configured interval of zero or less, and exactly the configured
\* number of seconds for a positive one.
C7_WakeupPositive ==
    ret.op = "WakeupInterval" =>
        /\ ~LeqZero64(ret.val)
        /\ LeqZero64(params.WakeupInterval) => ExactSeconds(Int64(300), ret.val)
        /\ ~LeqZero64(params.WakeupInterval)
              => ExactSeconds(params.WakeupInterval, ret.val)

\* The longest interval, in seconds, whose nanoseconds fit an int64.
MaxWakeupSeconds == <<4, 125, 193, 37, 2, 0, 0, 0>>

\* a <= b for non-negative int64 values.
RECURSIVE Leq64From(_, _, _)
Leq64From(a, b, k) ==
    IF k = 0 THEN TRUE
    ELSE IF a[k] # b[k] THEN a[k] < b[k]
    ELSE Leq64From(a, b, k - 1)

\* What holds of WakeupInterval(): the statement of C7 for the intervals
\* up to MaxWakeupSeconds.
C7_WakeupWithinRange ==
    (ret.op = "WakeupInterval"
        /\ (LeqZero64(params.WakeupInterval)
              \/ Leq64From(params.WakeupInterval, MaxWakeupSeconds, 8)))
      => C7_WakeupPositive

\* The level each valid name stands for.
LevelNames ==
    { <<<<"p","a","n","i","c">>, "PanicLevel">>,
      <<<<"f","a","t","a","l">>, "FatalLevel">>,
      <<<<"e","r","r","o","r">>, "ErrorLevel">>,
      <<<<"w","a","r","n">>, "WarnLevel">>,
      <<<<"w","a","r","n","i","n","g">>, "WarnLevel">>,
      <<<<"i","n","f","o">>, "InfoLevel">>,
      <<<<"d","e","b","u","g">>, "DebugLevel">>,
      <<<<"t","r","a","c","e">>, "TraceLevel">> }

\* C8: LogLevel() always returns a level: the debug level in debug mode,
\* otherwise the level params.LogLevel names (in any letter case) and the
\* info level when it names none.
C8_LogLevelTotal ==
    ret.op = "LogLevel" =>
        /\ ret.val \in { n[2] : n \in LevelNames }
        /\ Debug => ret.val = "DebugLevel"
        /\ ~Debug =>
              /\ \A n \in LevelNames :
                    ToLower(params.LogLevel) = n[1] => ret.val = n[2]
              /\ (\A n \in LevelNames : ToLower(params.LogLevel) # n[1])
                    => ret.val = "InfoLevel"

\* LogLevel() has returned outside debug mode for a string naming no level.
C8_Witness ==
    /\ ret.op = "LogLevel"
    /\ ~Debug
    /\ params.LogLevel = <<"v","e","r","b","o","s","e">>
    /\ ret.val = "InfoLevel"

\* C9: however goroutines calling Cache() interleave, one cache instance is
\* built and every caller receives that instance.
C9_OneInstanceForAll ==
    /\ cacheAllocs <= 1
    /\ \A g, h \in Goroutines :
          (gret[g] # Nil /\ gret[h] # Nil) => gret[g] = gret[h]

====
